---- MODULE Spec2Model ----
(***************************************************************************)
(* Roommate-Portal: the record store (MariaDB tables of setup/db-setup),   *)
(* its stored functions COUNT_MEMBERS / SUM_EXPENSES / CALC_SHARE and the  *)
(* API class that reads and writes it.                                     *)
(*                                                                         *)
(* Money is counted in integer cents (DECIMAL(n,2) columns).  A date is a  *)
(* day number 1..MaxDate of a calendar whose months have DaysPerMonth      *)
(* days.  A table without a key is a bag of rows, a table with a primary    *)
(* key a set of rows.                                                      *)
(***************************************************************************)
EXTENDS Integers, Sequences, FiniteSets, Bags, TLC

\* ---------------------------------------------------------------- bounds
MaxDate == 3
DaysPerMonth == 2
MaxMemberships == 3
MaxDefinitions == 1
MaxRecords == 4
MaxCalls == 3
MaxCascade == 2         \* on-purchase definitions of the group of a cascade
MaxLedger == 6          \* purchases and realizations in a cascade run
MaxSessions == 3        \* rows of Sessions

\* ------------------------------------------------------- value universes
Users == {1, 2}                 \* usernames; Uname order = numeric order
Gids == {1, 2}                  \* group ids
Iids == 1..MaxDefinitions       \* incentive-definition ids
Dates == 1..MaxDate
Amounts == {50, 3000, 7000}     \* cents
IncentiveAmounts == {-50, 500}  \* cents
Stores == {"shop"}
IncentiveNames == {"chores"}
GroupName(g) == IF g = 1 THEN "home" ELSE "flat"
Statuses == {"open", "locked"}
MemberLists == {<<1>>, <<1, 1>>, <<1, 2>>}

NULL == 0                       \* SQL NULL of a nullable DATE / TINYINT column

\* A SQL value that may be NULL: <<>> is NULL, <<v>> is the value v.
SqlNull == <<>>
Val(v) == <<v>>

VARIABLES today, midnight, attempts, sessions, users, groups, memberships,
          purchases, incentivesAvailable, incentives, calls, resp

vars == <<today, midnight, attempts, sessions, users, groups, memberships,
          purchases, incentivesAvailable, incentives, calls, resp>>
store == <<today, midnight, attempts, sessions, users, groups, memberships,
           purchases, incentivesAvailable, incentives>>

\* Instants: a day has its first instant (00:00:00) and the rest of the day.
\* A DATE compared with a DATETIME stands for the first instant of its day.
Midnight(d) == 2 * d
NOW == IF midnight THEN Midnight(today) ELSE Midnight(today) + 1

\* ------------------------------------------------------------ bag helpers
Rows(b) == BagToSet(b)
Insert(b, r) == b (+) SetToBag({r})

RECURSIVE SumOver(_, _)
SumOver(S, w) ==
    IF S = {} THEN 0
    ELSE LET r == CHOOSE x \in S : TRUE
         IN  w[r] + SumOver(S \ {r}, w)

RECURSIVE SortedSeq(_)
SortedSeq(S) ==
    IF S = {} THEN <<>>
    ELSE LET m == CHOOSE x \in S : \A y \in S : x <= y
         IN  <<m>> \o SortedSeq(S \ {m})

\* ------------------------------------------------------ date conversions
\* Date.toLocaleDateString() (en-US): "M/D/YYYY" of the local calendar day.
toLocaleDateString(d) ==
    [month |-> ((d - 1) \div DaysPerMonth) + 1, day |-> ((d - 1) % DaysPerMonth) + 1]

\* STR_TO_DATE(s, '%m/%d/%Y')
STR_TO_DATE(s) == (s.month - 1) * DaysPerMonth + s.day

\* ------------------------------------------------------ stored functions
\* A range test that leaves the last day out.
Between_open(d, lo, hi) == lo <= d /\ d < hi

\* date BETWEEN lo AND hi
Between(d, lo, hi) == lo <= d /\ d <= hi

\* A count of the matching Membership rows rather than of their users.
COUNT_MEMBERS_rows(groupID, fromDate, toDate) ==
    LET hit == { m \in Rows(memberships) :
                   /\ m.gid = groupID
                   /\ (m.left = NULL \/ m.left >= fromDate)
                   /\ m.joined <= toDate }
    IN  SumOver(hit, [m \in hit |-> CopiesIn(m, memberships)])

COUNT_MEMBERS(groupID, fromDate, toDate) ==
    LET hit == { m \in Rows(memberships) :
                   /\ m.gid = groupID
                   /\ (m.left = NULL \/ m.left >= fromDate)
                   /\ m.joined <= toDate }
    IN  Cardinality({ m.uid : m \in hit })

\* A total of the purchases alone.
SUM_EXPENSES_purchases(groupID, fromDate, toDate) ==
    LET ps == { p \in Rows(purchases) :
                  p.gid = groupID /\ Between(p.date, fromDate, toDate) }
    IN  SumOver(ps, [p \in ps |-> CopiesIn(p, purchases) * p.amount])

SUM_EXPENSES(groupID, fromDate, toDate) ==
    LET ps == { p \in Rows(purchases) :
                  p.gid = groupID /\ Between(p.date, fromDate, toDate) }
        \* Incentives RIGHT JOIN IncentivesAvailable ON IID; the WHERE on
        \* Incentives.Date drops the definitions that have no realization.
        js == { <<i, a>> \in Rows(incentives) \X incentivesAvailable :
                  /\ i.iid = a.iid
                  /\ a.gid = groupID
                  /\ Between(i.date, fromDate, toDate) }
    IN  SumOver(ps, [p \in ps |-> CopiesIn(p, purchases) * p.amount])
        + SumOver(js, [j \in js |-> CopiesIn(j[1], incentives) * j[2].amount])

\* A division that keeps the cents: a / b rounded down to the cent.
DIV_cents(a, b) == IF b = 0 THEN <<>> ELSE <<a \div b>>

\* a DIV b of MariaDB: the quotient with its fractional part discarded
\* (towards zero), NULL when b = 0.  a is in cents, the result in cents.
DIV(a, b) ==
    IF b = 0 THEN SqlNull
    ELSE IF a >= 0 THEN Val(100 * (a \div (100 * b)))
         ELSE Val(-(100 * ((-a) \div (100 * b))))

CALC_SHARE(groupID, fromDate, toDate) ==
    DIV(SUM_EXPENSES(groupID, fromDate, toDate),
        COUNT_MEMBERS(groupID, fromDate, toDate))

\* Number(x) of a column value: Number(null) = 0.
Number(x) == IF x = SqlNull THEN 0 ELSE x[1]

\* toISOString().split('T')[0]: "YYYY-MM-DD", and the DATE the store reads
\* from it.
toISODate(d) ==
    <<((d - 1) \div DaysPerMonth) + 1, ((d - 1) % DaysPerMonth) + 1>>
DATE(s) == (s[1] - 1) * DaysPerMonth + s[2]

\* ------------------------------------------------------------ settlements
\* First query of calculateSettlements:
\*   Memberships LEFT JOIN Users LEFT JOIN Purchases ON Users.UID = Purchases.UID
\*   WHERE Memberships.GID = ? AND (Purchases.Date BETWEEN ? AND ? OR
\*   Purchases.Date IS NULL) GROUP BY Users.Uname ORDER BY Users.Uname
\* A joined row is <<membership, purchase-or-NULL>>.
PurchaseJoin(groupID, fromDate, toDate) ==
    LET opts == { Val(p) : p \in Rows(purchases) } \cup { SqlNull }
    IN  { j \in Rows(memberships) \X opts :
            /\ \/ j[2] # SqlNull /\ j[2][1].uid = j[1].uid
               \/ j[2] = SqlNull
                  /\ \A p \in Rows(purchases) : p.uid # j[1].uid
            /\ j[1].gid = groupID
            /\ \/ j[2] = SqlNull
               \/ j[2] # SqlNull /\ Between(j[2][1].date, fromDate, toDate) }

PurchaseQuery(groupID, fromDate, toDate) ==
    LET f == STR_TO_DATE(toLocaleDateString(fromDate))
        t == STR_TO_DATE(toLocaleDateString(toDate))
        js == PurchaseJoin(groupID, f, t)
        of(u) == { j \in js : j[1].uid = u /\ j[2] # SqlNull }
        copies(j) == CopiesIn(j[1], memberships) * CopiesIn(j[2][1], purchases)
        row(u) ==
            [uname |-> u,
             totalPurchases |->
                 SumOver(of(u), [j \in of(u) |-> copies(j) * j[2][1].amount]),
             countPurchases |-> SumOver(of(u), [j \in of(u) |-> copies(j)]),
             groupShare |-> CALC_SHARE(groupID, f, t)]
        unames == SortedSeq({ j[1].uid : j \in js })
    IN  [i \in 1..Len(unames) |-> row(unames[i])]

\* Second query of calculateSettlements:
\*   Memberships LEFT JOIN Users LEFT JOIN Incentives ON Users.UID = Incentives.UID
\*   LEFT JOIN IncentivesAvailable ON Incentives.IID = IncentivesAvailable.IID
\*   WHERE Memberships.GID = ? AND (Incentives.Date BETWEEN ? AND ? OR
\*   Incentives.Date IS NULL) GROUP BY Users.Uname ORDER BY Users.Uname
\* A joined row is <<membership, realization-or-NULL>>.
IncentiveJoin(groupID, fromDate, toDate) ==
    LET opts == { Val(i) : i \in Rows(incentives) } \cup { SqlNull }
    IN  { j \in Rows(memberships) \X opts :
            /\ \/ j[2] # SqlNull /\ j[2][1].uid = j[1].uid
               \/ j[2] = SqlNull
                  /\ \A i \in Rows(incentives) : i.uid # j[1].uid
            /\ j[1].gid = groupID
            /\ \/ j[2] = SqlNull
               \/ j[2] # SqlNull /\ Between(j[2][1].date, fromDate, toDate) }

\* IncentivesAvailable.Amount of the joined realization (IID is the primary
\* key: at most one row joins; none leaves the amount NULL, which SUM skips).
DefinitionAmount(i) ==
    LET as == { a \in incentivesAvailable : a.iid = i.iid }
    IN  SumOver(as, [a \in as |-> a.amount])

IncentiveQuery(groupID, fromDate, toDate) ==
    LET f == STR_TO_DATE(toLocaleDateString(fromDate))
        t == STR_TO_DATE(toLocaleDateString(toDate))
        js == IncentiveJoin(groupID, f, t)
        of(u) == { j \in js : j[1].uid = u /\ j[2] # SqlNull }
        copies(j) == CopiesIn(j[1], memberships) * CopiesIn(j[2][1], incentives)
        row(u) ==
            [uname |-> u,
             totalIncentives |->
                 SumOver(of(u), [j \in of(u) |-> copies(j) * DefinitionAmount(j[2][1])]),
             countIncentives |-> SumOver(of(u), [j \in of(u) |-> copies(j)])]
        unames == SortedSeq({ j[1].uid : j \in js })
    IN  [i \in 1..Len(unames) |-> row(unames[i])]

\* A row whose owes is the contribution less the share.
SettlementRow_owed(data0, data1, i) ==
    [uname |-> data0[i].uname,
     totalPurchases |-> data0[i].totalPurchases,
     countPurchases |-> data0[i].countPurchases,
     totalIncentives |-> data1[i].totalIncentives,
     countIncentives |-> data1[i].countIncentives,
     totalContribution |-> data0[i].totalPurchases + data1[i].totalIncentives,
     owes |-> (data0[i].totalPurchases + data1[i].totalIncentives)
              - (IF data0[1].groupShare = <<>> THEN 0 ELSE data0[1].groupShare[1])]

\* The .then callback of calculateSettlements: one row per row of the first
\* query, the second query's rows merged in by index.
SettlementRow(data0, data1, i) ==
    [uname |-> data0[i].uname,
     totalPurchases |-> data0[i].totalPurchases,
     countPurchases |-> data0[i].countPurchases,
     totalIncentives |-> data1[i].totalIncentives,
     countIncentives |-> data1[i].countIncentives,
     totalContribution |-> data0[i].totalPurchases + data1[i].totalIncentives,
     owes |-> Number(data0[1].groupShare)
              - (data0[i].totalPurchases + data1[i].totalIncentives)]

\* A handler's outcome: the value it resolves to, or the error it throws.
Ok(v) == [ok |-> TRUE, value |-> v, error |-> ""]
Err(title) == [ok |-> FALSE, value |-> <<>>, error |-> title]

calculateSettlements(groupID, fromDate, toDate) ==
    LET data0 == PurchaseQuery(groupID, fromDate, toDate)
        data1 == IncentiveQuery(groupID, fromDate, toDate)
    IN  IF Len(data1) < Len(data0)
        THEN Err("TypeError")       \* data[1][i] is undefined
        ELSE Ok([i \in 1..Len(data0) |-> SettlementRow(data0, data1, i)])

\* getGroupTransactions, the fields read from its first query and from
\* calculateSettlements.
getGroupTransactions(groupID, fromDate, toDate) ==
    LET f == STR_TO_DATE(toLocaleDateString(fromDate))
        t == STR_TO_DATE(toLocaleDateString(toDate))
        s == calculateSettlements(groupID, fromDate, toDate)
    IN  IF ~s.ok THEN s
        ELSE Ok([periodFrom |-> fromDate,
                 periodTo |-> toDate,
                 total |-> Number(Val(SUM_EXPENSES(groupID, f, t))),
                 settlements |-> s.value])

\* ------------------------------------------------- getTransactionRecords
\* Date.toISOString(): "YYYY-MM-DDTHH:mm:ss.sssZ" of an instant, and the
\* DATETIME the store reads from it.
toISOString(instant) ==
    <<toISODate(instant \div 2)[1], toISODate(instant \div 2)[2], instant % 2>>
DATETIME(s) == Midnight(DATE(<<s[1], s[2]>>)) + s[3]

\* Incentives.Date BETWEEN '2022-03-01' AND '2022-04-02'
FixedFrom == DATE(<<3, 1>>)
FixedTo == DATE(<<4, 2>>)

\* SELECT 'purchase' AS type, ... WHERE Purchases.GID = ? AND
\* Purchases.Date BETWEEN ? AND ?, the bounds being toISOString() of the
\* arguments; a DATE compares with a DATETIME as its midnight.
PurchaseRecord(p) ==
    [type |-> "purchase", date |-> p.date, uname |-> p.uid,
     incentiveName |-> SqlNull, amount |-> Number(Val(p.amount)),
     store |-> Val(p.store), notes |-> p.notes]

PurchaseRecords(groupID, fromDate, toDate) ==
    LET ps == { p \in Rows(purchases) :
                  /\ p.gid = groupID
                  /\ Between(Midnight(p.date),
                             DATETIME(toISOString(Midnight(fromDate))),
                             DATETIME(toISOString(Midnight(toDate)))) }
        rs == { PurchaseRecord(p) : p \in ps }
    IN  [r \in rs |->
           LET of == { p \in ps : PurchaseRecord(p) = r }
           IN  SumOver(of, [p \in of |-> CopiesIn(p, purchases)])]

\* SELECT 'incentive' AS type, ... FROM Incentives ... RIGHT JOIN
\* IncentivesAvailable ON IID WHERE IncentivesAvailable.GID = ? AND
\* Incentives.Date BETWEEN '2022-03-01' AND '2022-04-02'
IncentiveRecord(j) ==
    [type |-> "incentive", date |-> j[1].date, uname |-> j[1].uid,
     incentiveName |-> Val(j[2].name), amount |-> Number(Val(j[2].amount)),
     store |-> SqlNull, notes |-> j[1].notes]

IncentiveRecords(groupID) ==
    LET js == { j \in Rows(incentives) \X incentivesAvailable :
                  /\ j[1].iid = j[2].iid
                  /\ j[2].gid = groupID
                  /\ Between(j[1].date, FixedFrom, FixedTo) }
        rs == { IncentiveRecord(j) : j \in js }
    IN  [r \in rs |->
           LET of == { j \in js : IncentiveRecord(j) = r }
           IN  SumOver(of, [j \in of |-> CopiesIn(j[1], incentives)])]

\* ORDER BY date: the rows of b in an order of non-decreasing date.
ORDER_BY_date(b) ==
    { q \in [1..BagCardinality(b) -> Rows(b)] :
        /\ \A r \in Rows(b) :
              Cardinality({ i \in DOMAIN q : q[i] = r }) = CopiesIn(r, b)
        /\ \A i, j \in DOMAIN q : i < j => q[i].date <= q[j].date }

\* The answers of getTransactionRecords: the UNION ALL of the two SELECTs,
\* ordered by date.
getTransactionRecords(groupID, fromDate, toDate) ==
    ORDER_BY_date(PurchaseRecords(groupID, fromDate, toDate)
                    (+) IncentiveRecords(groupID))

\* SELECT COUNT(*) AS countPurchases ... FROM Purchases WHERE GID = ? AND
\* Date BETWEEN ? AND ?, the bounds being toISOString() of the arguments.
countPurchases(groupID, fromDate, toDate) ==
    LET ps == { p \in Rows(purchases) :
                  /\ p.gid = groupID
                  /\ Between(Midnight(p.date),
                             DATETIME(toISOString(Midnight(fromDate))),
                             DATETIME(toISOString(Midnight(toDate)))) }
    IN  SumOver(ps, [p \in ps |-> CopiesIn(p, purchases)])

\* SELECT COUNT(*) AS countIncentives ... FROM Incentives RIGHT JOIN
\* IncentivesAvailable ON IID WHERE IncentivesAvailable.GID = ? AND
\* Incentives.Date BETWEEN ? AND ?
countIncentives(groupID, fromDate, toDate) ==
    LET js == { j \in Rows(incentives) \X incentivesAvailable :
                  /\ j[1].iid = j[2].iid
                  /\ j[2].gid = groupID
                  /\ Between(Midnight(j[1].date),
                             DATETIME(toISOString(Midnight(fromDate))),
                             DATETIME(toISOString(Midnight(toDate)))) }
    IN  SumOver(js, [j \in js |-> CopiesIn(j[1], incentives)])

\* getGroupTransactions, the count fields and the records of its report:
\* the answers it can give, one for each order of the records.
getGroupTransactionsRecords(groupID, fromDate, toDate) ==
    IF ~calculateSettlements(groupID, fromDate, toDate).ok
    THEN { calculateSettlements(groupID, fromDate, toDate) }
    ELSE { Ok([countPurchases |-> countPurchases(groupID, fromDate, toDate),
               countIncentives |-> countIncentives(groupID, fromDate, toDate),
               countRecords |-> countPurchases(groupID, fromDate, toDate)
                                + countIncentives(groupID, fromDate, toDate),
               records |-> records]) :
           records \in getTransactionRecords(groupID, fromDate, toDate) }

\* ------------------------------------------------------------ the store
\* Groups rows (GID is the primary key); MaxUsers NULL = no cap; Created is
\* the rank of the row's creation time.
GroupRow(g) == CHOOSE r \in groups : r.gid = g

\* SELECT EXISTS(SELECT * FROM Users WHERE Uname = ?); users holds the
\* usernames of the Users rows, and a row's UID is written as the username
\* it was created with.
userExists(uname) == uname \in users
groupExists(gid) == \E r \in groups : r.gid = gid
incentiveExists(iid) == \E a \in incentivesAvailable : a.iid = iid

\* SELECT EXISTS(... Memberships.GID = ? AND Memberships.LeftGroup IS NULL)
isInGroup(uname, gid) ==
    \E m \in Rows(memberships) : m.uid = uname /\ m.gid = gid /\ m.left = NULL

\* listGroupMembers: one row per open Membership row of the group.
listGroupMembers(gid) ==
    LET open == { m \in Rows(memberships) : m.gid = gid /\ m.left = NULL }
    IN  SumOver(open, [m \in open |-> CopiesIn(m, memberships)])

\* An update without "AND LeftGroup IS NULL": every row of the pair, the
\* closed ones included, gets today as its left-date.
CloseOpen_all(uname, gid) ==
    LET hit(m) == m.uid = uname /\ m.gid = gid
        closed(m) == [m EXCEPT !.left = today]
        kept == { m \in Rows(memberships) : ~hit(m) }
        out == kept \cup { closed(m) : m \in { x \in Rows(memberships) : hit(x) } }
        from(r) == { m \in Rows(memberships) :
                       (~hit(m) /\ m = r) \/ (hit(m) /\ closed(m) = r) }
    IN  [r \in out |-> SumOver(from(r), [m \in from(r) |-> CopiesIn(m, memberships)])]

\* listGroupIncentives: the definitions of the group not yet ended.
listGroupIncentives(groupID) ==
    { a \in incentivesAvailable :
        a.gid = groupID /\ (a.end = NULL \/ Midnight(a.end) > NOW) }

\* new Date(year, month, 1) and new Date(year, month + 1, 0): the first and
\* the last day of the month of today.
FirstOfMonth == STR_TO_DATE([toLocaleDateString(today) EXCEPT !.day = 1])
LastOfMonth == STR_TO_DATE([toLocaleDateString(today) EXCEPT !.day = DaysPerMonth])

\* What a function returns when it ends at "return;".
Undefined == <<"undefined">>

\* getGroup: four queries under Promise.all, then undefined when the
\* Groups query found no row, the snapshot of the group otherwise.
getGroup(groupID) ==
    LET data0 == { r \in groups : r.gid = groupID }
        data3 == getGroupTransactions(groupID, FirstOfMonth, LastOfMonth)
        row == CHOOSE r \in data0 : TRUE
    IN  IF ~data3.ok THEN data3
        ELSE IF data0 = {} THEN Ok(Undefined)
        ELSE Ok([groupName |-> row.name, groupID |-> groupID,
                 created |-> row.created, status |-> row.status,
                 maxMembers |-> Number(IF row.max = NULL THEN SqlNull
                                       ELSE Val(row.max)),
                 countMembers |-> listGroupMembers(groupID),
                 countIncentivesAvailable |->
                     Cardinality(listGroupIncentives(groupID)),
                 transactions |-> data3.value])

\* UPDATE Memberships SET LeftGroup = NOW() WHERE UID = ? AND GID = ? AND
\* LeftGroup IS NULL: every open row of the pair is closed.
CloseOpen(uname, gid) ==
    LET hit(m) == m.uid = uname /\ m.gid = gid /\ m.left = NULL
        closed(m) == [m EXCEPT !.left = today]
        kept == { m \in Rows(memberships) : ~hit(m) }
        out == kept \cup { closed(m) : m \in { x \in Rows(memberships) : hit(x) } }
        from(r) == { m \in Rows(memberships) :
                       (~hit(m) /\ m = r) \/ (hit(m) /\ closed(m) = r) }
    IN  [r \in out |-> SumOver(from(r), [m \in from(r) |-> CopiesIn(m, memberships)])]

\* The number of rows the bounded store holds.
Records ==
    BagCardinality(memberships) + BagCardinality(purchases)
    + BagCardinality(incentives) + Cardinality(incentivesAvailable)

NoResp ==
    [op |-> "none", uname |-> 0, token |-> 0, gid |-> 0, from |-> 0, to |-> 0,
     out |-> Ok(<<>>)]
Read(op, g, f, t, out) ==
    [op |-> op, uname |-> 0, token |-> 0, gid |-> g, from |-> f, to |-> t,
     out |-> out]
\* The answer to a request that carried a session token.
Answer(op, uname, token, out) ==
    [op |-> op, uname |-> uname, token |-> token, gid |-> 0, from |-> 0,
     to |-> 0, out |-> out]
\* res = errorHandler(e): the error a request of uname on group g ends with.
Failed(op, uname, g, out) ==
    [op |-> op, uname |-> uname, token |-> 0, gid |-> g, from |-> 0, to |-> 0,
     out |-> out]

InitStore ==
    /\ today = 1
    /\ midnight = TRUE
    /\ attempts = [u \in Users |-> 0]
    /\ sessions = {}
    /\ users = Users
    /\ groups = { [gid |-> g, status |-> "open", max |-> NULL,
                    name |-> GroupName(g), created |-> g] : g \in Gids }
    /\ memberships = EmptyBag
    /\ purchases = EmptyBag
    /\ incentivesAvailable = {}
    /\ incentives = EmptyBag

Init ==
    /\ InitStore
    /\ calls = EmptyBag
    /\ resp = NoResp

\* One group exists.
InitSnapshot ==
    /\ today = 1
    /\ midnight = TRUE
    /\ attempts = [u \in Users |-> 0]
    /\ sessions = {}
    /\ users = Users
    /\ groups = { [gid |-> 1, status |-> "open", max |-> NULL,
                   name |-> GroupName(1), created |-> 1] }
    /\ memberships = EmptyBag
    /\ purchases = EmptyBag
    /\ incentivesAvailable = {}
    /\ incentives = EmptyBag
    /\ calls = EmptyBag
    /\ resp = NoResp

\* ---------------------------------------------- handlers, run to completion
\* The clock: NOW() moves to the first instant of the next day.
Tick ==
    /\ resp = NoResp
    /\ today < MaxDate
    /\ today' = today + 1
    /\ midnight' = TRUE
    /\ resp' = NoResp
    /\ UNCHANGED <<attempts, sessions, users, groups, memberships, purchases,
                   incentivesAvailable, incentives, calls>>

\* The clock: NOW() moves past the first instant of the day.
Tock ==
    /\ resp = NoResp
    /\ midnight
    /\ midnight' = FALSE
    /\ resp' = NoResp
    /\ UNCHANGED <<today, attempts, sessions, users, groups, memberships,
                   purchases, incentivesAvailable, incentives, calls>>

joinGroupOutcome(uname, gid) ==
    IF ~userExists(uname) THEN Err("User Not Found")
    ELSE IF ~groupExists(gid) THEN Err("Group Not Found")
    ELSE IF isInGroup(uname, gid) THEN Err("Already In Group")
    ELSE IF GroupRow(gid).max # NULL /\ listGroupMembers(gid) >= GroupRow(gid).max
         THEN Err("Group Full")
    ELSE IF GroupRow(gid).status = "locked" THEN Err("Group Locked")
    ELSE Ok(<<>>)

JoinGroup(uname, gid) ==
    LET out == joinGroupOutcome(uname, gid)
    IN  /\ resp = NoResp
        /\ out.ok => (Records < MaxRecords /\ BagCardinality(memberships) < MaxMemberships)
        /\ memberships' =
             IF out.ok
             THEN Insert(memberships,
                         [uid |-> uname, gid |-> gid, joined |-> today, left |-> NULL])
             ELSE memberships
        /\ resp' = NoResp
        /\ UNCHANGED <<today, midnight, attempts, sessions, users, groups, purchases, incentivesAvailable, incentives, calls>>

leaveGroupOutcome(uname, gid) ==
    IF ~userExists(uname) THEN Err("User Not Found")
    ELSE IF ~groupExists(gid) THEN Err("Group Not Found")
    ELSE IF ~isInGroup(uname, gid) THEN Err("Not In Group")
    ELSE Ok(<<>>)

LeaveGroup(uname, gid) ==
    LET out == leaveGroupOutcome(uname, gid)
    IN  /\ resp = NoResp
        /\ memberships' = IF out.ok THEN CloseOpen(uname, gid) ELSE memberships
        /\ resp' = NoResp
        /\ UNCHANGED <<today, midnight, attempts, sessions, users, groups, purchases, incentivesAvailable, incentives, calls>>

\* SELECT ... FROM IncentivesAvailable WHERE GID = ? AND Begin < NOW() AND
\* (End IS NULL OR End > NOW()) AND OnPurchase = 1.  Begin and End are DATEs.
OnPurchaseIncentives(groupID) ==
    { a \in incentivesAvailable :
        /\ a.gid = groupID
        /\ Midnight(a.begin) < NOW
        /\ (a.end = NULL \/ Midnight(a.end) > NOW)
        /\ a.onPurchase }

addIncentiveOutcome_unchecked(uname, incentiveID) ==
    IF ~userExists(uname) THEN Err("User Not Found") ELSE Ok(<<>>)

addIncentiveOutcome(uname, incentiveID) ==
    IF ~userExists(uname) THEN Err("User Not Found")
    ELSE IF ~incentiveExists(incentiveID) THEN Err("Incentive Not Found")
    ELSE Ok(<<>>)

\* The row addIncentive inserts; an undefined date is new Date().
Realization(uname, incentiveID, notes, date) ==
    [uid |-> uname, iid |-> incentiveID, date |-> DATE(toISODate(date)),
     notes |-> notes]

\* `Added by purchase on ${ date.toLocaleDateString() }.`
PurchaseNote(date) == <<"Added by purchase on", toLocaleDateString(date)>>

\* The realizations the cascade of one addPurchase inserts: addIncentive is
\* called with the note only, so each is dated new Date().
Cascade(uname, groupID, date) ==
    { Realization(uname, a.iid, PurchaseNote(date), today) :
        a \in OnPurchaseIncentives(groupID) }

addPurchaseOutcome_unchecked(uname, groupID) ==
    IF ~userExists(uname) THEN Err("User Not Found")
    ELSE IF ~groupExists(groupID) THEN Err("Group Not Found")
    ELSE Ok(<<>>)

addPurchaseOutcome(uname, groupID) ==
    IF ~userExists(uname) THEN Err("User Not Found")
    ELSE IF ~groupExists(groupID) THEN Err("Group Not Found")
    ELSE IF ~isInGroup(uname, groupID) THEN Err("User Not In Group")
    ELSE Ok(<<>>)

AddPurchase(uname, groupID, amount, storeName, date) ==
    LET out == addPurchaseOutcome(uname, groupID)
        cascade == Cascade(uname, groupID, date)
    IN  /\ resp = NoResp
        /\ out.ok => Records + Cardinality(cascade) < MaxRecords
        /\ incentives' = IF out.ok THEN incentives (+) SetToBag(cascade) ELSE incentives
        /\ purchases' =
             IF out.ok
             THEN Insert(purchases,
                         [uid |-> uname, gid |-> groupID, date |-> DATE(toISODate(date)),
                          store |-> storeName, amount |-> amount, notes |-> <<>>])
             ELSE purchases
        /\ resp' = IF out.ok THEN NoResp ELSE Failed("addPurchase", uname, groupID, out)
        /\ UNCHANGED <<today, midnight, attempts, sessions, users, groups, memberships, incentivesAvailable, calls>>

\* IID is a fresh UUID(); UNIQUE(GID, Name) rejects a second definition of
\* the same name in the group.
createNewIncentiveOutcome(groupID, name) ==
    IF ~groupExists(groupID) THEN Err("Group Not Found")
    ELSE IF \E a \in incentivesAvailable : a.gid = groupID /\ a.name = name
         THEN Err("Duplicate entry")
    ELSE Ok(<<>>)

CreateNewIncentive(groupID, name, amount, onPurchase) ==
    LET out == createNewIncentiveOutcome(groupID, name)
    IN  /\ resp = NoResp
        /\ out.ok => (Records < MaxRecords /\ \E i \in Iids : ~incentiveExists(i))
        /\ incentivesAvailable' =
             IF out.ok
             THEN LET iid == CHOOSE i \in Iids : ~incentiveExists(i)
                  IN  incentivesAvailable \cup
                        { [iid |-> iid, gid |-> groupID, name |-> name,
                           amount |-> amount, begin |-> today, end |-> NULL,
                           onPurchase |-> onPurchase] }
             ELSE incentivesAvailable
        /\ resp' = IF out.ok THEN NoResp
                   ELSE Failed("createNewIncentive", 0, groupID, out)
        /\ UNCHANGED <<today, midnight, attempts, sessions, users, groups, memberships, purchases, incentives, calls>>

AddIncentive(uname, incentiveID, date) ==
    LET out == addIncentiveOutcome(uname, incentiveID)
    IN  /\ resp = NoResp
        /\ out.ok => Records < MaxRecords
        /\ incentives' =
             IF out.ok
             THEN Insert(incentives, Realization(uname, incentiveID, <<>>, date))
             ELSE incentives
        /\ resp' = IF out.ok THEN NoResp ELSE Failed("addIncentive", uname, 0, out)
        /\ UNCHANGED <<today, midnight, attempts, sessions, users, groups, memberships, purchases, incentivesAvailable, calls>>

\* ------------------------------------------------------------ read handlers
\* A report that also files itself in the ledger, as a purchase of nothing.
GetGroupTransactions_filed(groupID, fromDate, toDate) ==
    /\ resp = NoResp
    /\ resp' = Read("getGroupTransactions", groupID, fromDate, toDate,
                    getGroupTransactions(groupID, fromDate, toDate))
    /\ purchases' = Insert(purchases,
                           [uid |-> 1, gid |-> groupID, date |-> toDate,
                            store |-> "report", amount |-> 0, notes |-> <<>>])
    /\ UNCHANGED <<today, midnight, attempts, sessions, users, groups, memberships,
                   incentivesAvailable, incentives, calls>>

GetGroupTransactions(groupID, fromDate, toDate) ==
    /\ resp = NoResp
    /\ resp' = Read("getGroupTransactions", groupID, fromDate, toDate,
                    getGroupTransactions(groupID, fromDate, toDate))
    /\ UNCHANGED <<store, calls>>

GetGroupTransactionsRecords(groupID, fromDate, toDate) ==
    /\ resp = NoResp
    /\ \E out \in getGroupTransactionsRecords(groupID, fromDate, toDate) :
          resp' = Read("getGroupTransactions.records", groupID, fromDate, toDate, out)
    /\ UNCHANGED <<store, calls>>

GetGroup(groupID) ==
    /\ resp = NoResp
    /\ resp' = Read("getGroup", groupID, NULL, NULL, getGroup(groupID))
    /\ UNCHANGED <<store, calls>>

GetTransactionRecords(groupID, fromDate, toDate) ==
    /\ resp = NoResp
    /\ \E out \in getTransactionRecords(groupID, fromDate, toDate) :
          resp' = Read("getTransactionRecords", groupID, fromDate, toDate, Ok(out))
    /\ UNCHANGED <<store, calls>>

\* ctx.response.body = JSON.stringify(res): the answer leaves the server.
Reply ==
    /\ resp # NoResp
    /\ resp' = NoResp
    /\ UNCHANGED <<store, calls>>

\* Requests served one after the other within one day.
Next ==
    \/ Reply
    \/ Tock
    \/ \E u \in Users, g \in Gids : JoinGroup(u, g)
    \/ \E u \in Users, g \in Gids : LeaveGroup(u, g)
    \/ \E u \in Users, g \in Gids, a \in Amounts, s \in Stores, d \in Dates :
         AddPurchase(u, g, a, s, d)
    \/ \E g \in Gids, n \in IncentiveNames, a \in IncentiveAmounts, o \in BOOLEAN :
         CreateNewIncentive(g, n, a, o)
    \/ \E u \in Users, i \in Iids, d \in Dates : AddIncentive(u, i, d)
    \/ \E g \in Gids, f \in Dates, t \in Dates : GetGroupTransactions(g, f, t)

Spec == Init /\ [][Next]_vars

\* Joins and leaves over several days, one request after the other.
NextMembers ==
    \/ Reply
    \/ Tick
    \/ \E u \in Users, g \in Gids : JoinGroup(u, g)
    \/ \E u \in Users, g \in Gids : LeaveGroup(u, g)
    \/ \E g \in Gids, f \in Dates, t \in Dates : GetGroupTransactions(g, f, t)

SpecMembers == Init /\ [][NextMembers]_vars

\* Every writing request, over several days; purchases and incentives are
\* dated the day of the request.
LedgerAmounts == {CHOOSE a \in Amounts : \A b \in Amounts : a <= b}

NextLedger ==
    \/ Reply
    \/ Tick
    \/ \E u \in Users, g \in Gids : JoinGroup(u, g)
    \/ \E u \in Users, g \in Gids : LeaveGroup(u, g)
    \/ \E u \in Users, g \in Gids, a \in LedgerAmounts, s \in Stores :
         AddPurchase(u, g, a, s, today)
    \/ \E g \in Gids, n \in IncentiveNames, a \in IncentiveAmounts, o \in BOOLEAN :
         CreateNewIncentive(g, n, a, o)
    \/ \E u \in Users, i \in Iids : AddIncentive(u, i, today)

SpecLedger == Init /\ [][NextLedger]_vars

\* POST /purchase: amount = Number(data.get('amount')) is any number the
\* DECIMAL(5,2) column takes, the negative ones included.
SignedAmounts == Amounts \cup { -a : a \in LedgerAmounts }

NextPurchase ==
    \/ Reply
    \/ Tock
    \/ \E u \in Users, g \in Gids : JoinGroup(u, g)
    \/ \E u \in Users, g \in Gids : LeaveGroup(u, g)
    \/ \E u \in Users, g \in Gids, a \in SignedAmounts, s \in Stores :
         AddPurchase(u, g, a, s, today)

SpecPurchase == Init /\ [][NextPurchase]_vars

\* Snapshots asked of groups that exist or not: one group exists.
NextSnapshot ==
    \/ Reply
    \/ \E u \in Users, g \in Gids : JoinGroup(u, g)
    \/ \E u \in Users, g \in Gids, a \in LedgerAmounts, s \in Stores :
         AddPurchase(u, g, a, s, today)
    \/ \E g \in Gids : GetGroup(g)
    \/ \E g \in Gids, f \in Dates, t \in Dates : GetGroupTransactions(g, f, t)

SpecSnapshot == InitSnapshot /\ [][NextSnapshot]_vars

\* Purchases and incentives recorded and listed, one request after the
\* other; an incentive may be dated any day, the days of the fixed range
\* included.
RecordDates == Dates \cup {FixedFrom}

NextRecords ==
    \/ Reply
    \/ \E u \in Users, g \in Gids : JoinGroup(u, g)
    \/ \E u \in Users, g \in Gids, a \in Amounts, s \in Stores, d \in Dates :
         AddPurchase(u, g, a, s, d)
    \/ \E g \in Gids, n \in IncentiveNames, a \in IncentiveAmounts, o \in BOOLEAN :
         CreateNewIncentive(g, n, a, o)
    \/ \E u \in Users, i \in Iids, d \in RecordDates : AddIncentive(u, i, d)
    \/ \E g \in Gids, f \in Dates, t \in Dates : GetTransactionRecords(g, f, t)
    \/ \E g \in Gids, f \in Dates, t \in Dates : GetGroupTransactionsRecords(g, f, t)

SpecRecords == Init /\ [][NextRecords]_vars

\* --------------------------------------- handlers, one await at a time
\* calls is the bag of calls in flight.  A call is at the query it awaits
\* (pc); group is the Groups row it holds (what joinGroup read, what
\* createGroup inserts); members and pending are createGroup's member list
\* and the joins its Promise.all still waits for; parent marks a joinGroup
\* started by createGroup or an addIncentive started by addPurchase.  An
\* addPurchase holds its amount, store and date and the incentive IDs its
\* query selected, in the order of the result; an addIncentive holds its
\* incentive ID, its note, and its place in that result (order).
NoRow == [gid |-> 0, status |-> "none", max |-> NULL, name |-> "", created |-> 0]

Call(op, uname, gid, pc) ==
    [op |-> op, uname |-> uname, gid |-> gid, pc |-> pc, group |-> NoRow,
     members |-> <<>>, pending |-> 0, parent |-> FALSE,
     amount |-> 0, store |-> "", date |-> NULL, selected |-> <<>>,
     iid |-> 0, notes |-> <<>>, order |-> 0, password |-> "", token |-> 0]

At(c, op, pc) == c.op = op /\ c.pc = pc

Without(c) == calls (-) SetToBag({c})
Advance(c, d) == Without(c) (+) SetToBag({d})
Goto(c, pc) == Advance(c, [c EXCEPT !.pc = pc])

\* The call whose Promise.all a spawned call settles: createGroup for a
\* joinGroup, addPurchase for an addIncentive.
Awaiting(c) ==
    { p \in Rows(calls) :
        /\ p.pc = "Promise.all"
        /\ p.op = IF c.op = "joinGroup" THEN "createGroup" ELSE "addPurchase" }

\* What follows the await of Promise.all: createGroup goes on to lockGroup
\* (status 'locked') or to getGroup, addPurchase to its INSERT.
Continuation(p) ==
    IF p.op = "addPurchase" THEN "insert"
    ELSE IF p.group.status = "locked" THEN "lockGroup.groupExists"
    ELSE "getGroup"

\* A promise that settles with the first of its calls to resolve.
Settled_first(p) == [p EXCEPT !.pending = @ - 1, !.pc = Continuation(p)]

\* Promise.all after one more of its calls has resolved: it resolves once
\* all of them have.
Settled(p) ==
    [p EXCEPT !.pending = @ - 1,
              !.pc = IF p.pending > 1 THEN p.pc ELSE Continuation(p)]

\* The call resolves, and Promise.all counts it.
Return(c) ==
    IF c.parent /\ Awaiting(c) # {}
    THEN LET p == CHOOSE x \in Awaiting(c) : TRUE
         IN  (Without(c) (-) SetToBag({p})) (+) SetToBag({Settled(p)})
    ELSE Without(c)

\* The call throws: Promise.all rejects, which ends the awaiting call there
\* (the other calls it started keep running).
Throw(c) ==
    IF c.parent /\ Awaiting(c) # {}
    THEN Without(c) (-) SetToBag({CHOOSE x \in Awaiting(c) : TRUE})
    ELSE Without(c)

\* Calls in flight, counting the joins a createGroup has yet to start.
RECURSIVE Reserved(_)
Reserved(cs) ==
    IF cs = {} THEN 0
    ELSE LET c == CHOOSE x \in cs : TRUE
             spawn == IF c.op = "createGroup"
                         /\ c.pc \in {"insert", "lookup"}
                      THEN Len(c.members) ELSE 0
         IN  CopiesIn(c, calls) * (1 + spawn) + Reserved(cs \ {c})

\* Membership rows there are or may come to be.
RECURSIVE Joining(_)
Joining(cs) ==
    IF cs = {} THEN 0
    ELSE LET c == CHOOSE x \in cs : TRUE
             n == IF c.op = "joinGroup" THEN 1
                  ELSE IF c.op = "createGroup" /\ c.pc \in {"insert", "lookup"}
                  THEN Len(c.members) ELSE 0
         IN  CopiesIn(c, calls) * n + Joining(cs \ {c})

Room(nCalls, nJoins) ==
    /\ Reserved(Rows(calls)) + nCalls <= MaxCalls
    /\ BagCardinality(memberships) + Joining(Rows(calls)) + nJoins <= MaxMemberships

\* POST /group/join
StartJoinGroup(uname, gid) ==
    /\ Room(1, 1)
    /\ calls' = calls (+) SetToBag({Call("joinGroup", uname, gid, "userExists")})
    /\ UNCHANGED <<store, resp>>

joinGroup_userExists(c) ==
    /\ At(c, "joinGroup", "userExists")
    /\ calls' = IF userExists(c.uname) THEN Goto(c, "groupExists") ELSE Throw(c)
    /\ UNCHANGED <<store, resp>>

joinGroup_groupExists(c) ==
    /\ At(c, "joinGroup", "groupExists")
    /\ calls' = IF groupExists(c.gid) THEN Goto(c, "isInGroup") ELSE Throw(c)
    /\ UNCHANGED <<store, resp>>

joinGroup_isInGroup(c) ==
    /\ At(c, "joinGroup", "isInGroup")
    /\ calls' = IF isInGroup(c.uname, c.gid) THEN Throw(c) ELSE Goto(c, "group")
    /\ UNCHANGED <<store, resp>>

\* SELECT MaxUsers, Status, Name FROM Groups WHERE GID = ?; with no cap the
\* member list is not read and the status is checked at once.
joinGroup_group(c) ==
    LET group == GroupRow(c.gid)
    IN  /\ At(c, "joinGroup", "group")
        /\ calls' =
             IF group.max # NULL
             THEN Advance(c, [c EXCEPT !.group = group, !.pc = "listGroupMembers"])
             ELSE IF group.status = "locked" THEN Throw(c)
             ELSE Goto(c, "insert")
        /\ UNCHANGED <<store, resp>>

joinGroup_listGroupMembers(c) ==
    /\ At(c, "joinGroup", "listGroupMembers")
    /\ calls' =
         IF listGroupMembers(c.gid) >= c.group.max THEN Throw(c)
         ELSE IF c.group.status = "locked" THEN Throw(c)
         ELSE Advance(c, [c EXCEPT !.group = NoRow, !.pc = "insert"])
    /\ UNCHANGED <<store, resp>>

joinGroup_insert(c) ==
    /\ At(c, "joinGroup", "insert")
    /\ memberships' =
         Insert(memberships,
                [uid |-> c.uname, gid |-> c.gid, joined |-> today, left |-> NULL])
    /\ calls' = Return(c)
    /\ UNCHANGED <<today, midnight, attempts, sessions, users, groups, purchases, incentivesAvailable, incentives, resp>>

\* POST /group/leave
StartLeaveGroup(uname, gid) ==
    /\ Room(1, 0)
    /\ calls' = calls (+) SetToBag({Call("leaveGroup", uname, gid, "userExists")})
    /\ UNCHANGED <<store, resp>>

leaveGroup_userExists(c) ==
    /\ At(c, "leaveGroup", "userExists")
    /\ calls' = IF userExists(c.uname) THEN Goto(c, "groupExists") ELSE Throw(c)
    /\ UNCHANGED <<store, resp>>

leaveGroup_groupExists(c) ==
    /\ At(c, "leaveGroup", "groupExists")
    /\ calls' = IF groupExists(c.gid) THEN Goto(c, "isInGroup") ELSE Throw(c)
    /\ UNCHANGED <<store, resp>>

leaveGroup_isInGroup(c) ==
    /\ At(c, "leaveGroup", "isInGroup")
    /\ calls' = IF isInGroup(c.uname, c.gid) THEN Goto(c, "update") ELSE Throw(c)
    /\ UNCHANGED <<store, resp>>

leaveGroup_update(c) ==
    /\ At(c, "leaveGroup", "update")
    /\ memberships' = CloseOpen(c.uname, c.gid)
    /\ calls' = Return(c)
    /\ UNCHANGED <<today, midnight, attempts, sessions, users, groups, purchases, incentivesAvailable, incentives, resp>>

\* POST /group/create: maxMembers is raised to the length of the member
\* list; the status is checked before anything is written.
StartCreateGroup(name, status, maxMembers, members) ==
    LET max == IF maxMembers # NULL /\ Len(members) > maxMembers
               THEN Len(members) ELSE maxMembers
        c == Call("createGroup", 0, 0, "insert")
    IN  /\ status \in Statuses
        /\ \E g \in Gids : ~groupExists(g)
        /\ \A x \in Rows(calls) : x.op # "createGroup"
        /\ Room(1 + Len(members), Len(members))
        /\ calls' = calls (+) SetToBag({
               [c EXCEPT !.group = [NoRow EXCEPT !.status = status, !.max = max,
                                                 !.name = name],
                         !.members = members]})
        /\ UNCHANGED <<store, resp>>

\* INSERT INTO Groups (GID, ..., Status, MaxUsers) VALUES(UUID(), ..., 'open', ?)
createGroup_insert(c) ==
    /\ At(c, "createGroup", "insert")
    /\ \E g \in Gids : ~groupExists(g)
    /\ groups' = groups \cup
         { [gid |-> CHOOSE g \in Gids : ~groupExists(g), status |-> "open",
            max |-> c.group.max, name |-> c.group.name,
            created |-> Cardinality(groups) + 1] }
    /\ calls' = Goto(c, "lookup")
    /\ UNCHANGED <<today, midnight, attempts, sessions, users, memberships, purchases, incentivesAvailable, incentives, resp>>

\* SELECT GID FROM Groups WHERE Name = ? ORDER BY Created DESC LIMIT 1, then
\* members.map(joinGroup): every join is started before any is awaited.
createGroup_lookup(c) ==
    LET named == { r \in groups : r.name = c.group.name }
        res == CHOOSE r \in named : \A q \in named : q.created <= r.created
        joins == [i \in 1..Len(c.members) |->
                    [Call("joinGroup", c.members[i], res.gid, "userExists")
                       EXCEPT !.parent = TRUE]]
        spawned == c.members # <<>>
    IN  /\ At(c, "createGroup", "lookup")
        /\ calls' =
             Advance(c, [c EXCEPT !.gid = res.gid,
                                  !.pending = Len(c.members),
                                  !.pc = "Promise.all"])
             (+) [j \in { joins[i] : i \in 1..Len(joins) } |->
                    Cardinality({ i \in 1..Len(joins) : joins[i] = j })]
        /\ UNCHANGED <<store, resp>>

lockGroup_groupExists(c) ==
    /\ At(c, "createGroup", "lockGroup.groupExists")
    /\ calls' = IF groupExists(c.gid) THEN Goto(c, "lockGroup.update") ELSE Throw(c)
    /\ UNCHANGED <<store, resp>>

\* UPDATE Groups SET Status = 'locked' WHERE GID = ?
lockGroup_update(c) ==
    /\ At(c, "createGroup", "lockGroup.update")
    /\ groups' = { IF r.gid = c.gid THEN [r EXCEPT !.status = "locked"] ELSE r :
                   r \in groups }
    /\ calls' = Goto(c, "getGroup")
    /\ UNCHANGED <<today, midnight, attempts, sessions, users, memberships, purchases, incentivesAvailable, incentives, resp>>

\* The closing getGroup reads the store and the call resolves.
createGroup_getGroup(c) ==
    /\ At(c, "createGroup", "getGroup")
    /\ calls' = Return(c)
    /\ UNCHANGED <<store, resp>>

\* One group exists; a second can be created.
InitConcurrent ==
    /\ today = 1
    /\ midnight = TRUE
    /\ attempts = [u \in Users |-> 0]
    /\ sessions = {}
    /\ users = Users
    /\ groups = { [gid |-> 1, status |-> "open", max |-> NULL,
                   name |-> GroupName(1), created |-> 1] }
    /\ memberships = EmptyBag
    /\ purchases = EmptyBag
    /\ incentivesAvailable = {}
    /\ incentives = EmptyBag
    /\ calls = EmptyBag
    /\ resp = NoResp

NextConcurrent ==
    \/ \E u \in Users, g \in Gids : StartJoinGroup(u, g)
    \/ \E u \in Users, g \in Gids : StartLeaveGroup(u, g)
    \/ \E s \in Statuses, m \in {NULL, 1}, ms \in MemberLists :
         StartCreateGroup(GroupName(2), s, m, ms)
    \/ \E c \in Rows(calls) : joinGroup_userExists(c)
    \/ \E c \in Rows(calls) : joinGroup_groupExists(c)
    \/ \E c \in Rows(calls) : joinGroup_isInGroup(c)
    \/ \E c \in Rows(calls) : joinGroup_group(c)
    \/ \E c \in Rows(calls) : joinGroup_listGroupMembers(c)
    \/ \E c \in Rows(calls) : joinGroup_insert(c)
    \/ \E c \in Rows(calls) : leaveGroup_userExists(c)
    \/ \E c \in Rows(calls) : leaveGroup_groupExists(c)
    \/ \E c \in Rows(calls) : leaveGroup_isInGroup(c)
    \/ \E c \in Rows(calls) : leaveGroup_update(c)
    \/ \E c \in Rows(calls) : createGroup_insert(c)
    \/ \E c \in Rows(calls) : createGroup_lookup(c)
    \/ \E c \in Rows(calls) : lockGroup_groupExists(c)
    \/ \E c \in Rows(calls) : lockGroup_update(c)
    \/ \E c \in Rows(calls) : createGroup_getGroup(c)

SpecConcurrent == InitConcurrent /\ [][NextConcurrent]_vars

\* --------------------------- lockGroup / unlockGroup beside joinGroup
\* PUT /group/:id: state 'locked' calls lockGroup, anything else unlockGroup.
StartSetStatus(op, groupID) ==
    /\ op \in {"lockGroup", "unlockGroup"}
    /\ Room(1, 0)
    /\ calls' = calls (+) SetToBag({Call(op, 0, groupID, "groupExists")})
    /\ UNCHANGED <<store, resp>>

setStatus_groupExists(c) ==
    /\ c.op \in {"lockGroup", "unlockGroup"}
    /\ c.pc = "groupExists"
    /\ calls' = IF groupExists(c.gid) THEN Goto(c, "update") ELSE Throw(c)
    /\ UNCHANGED <<store, resp>>

\* UPDATE Groups SET Status = 'locked' | 'open' WHERE GID = ?
setStatus_update(c) ==
    /\ c.op \in {"lockGroup", "unlockGroup"}
    /\ c.pc = "update"
    /\ groups' = { IF r.gid = c.gid
                   THEN [r EXCEPT !.status = IF c.op = "lockGroup" THEN "locked"
                                             ELSE "open"]
                   ELSE r : r \in groups }
    /\ calls' = Return(c)
    /\ UNCHANGED <<today, midnight, attempts, sessions, users, memberships, purchases,
                   incentivesAvailable, incentives, resp>>

NextLock ==
    \/ \E u \in Users, g \in Gids : StartJoinGroup(u, g)
    \/ \E op \in {"lockGroup", "unlockGroup"}, g \in Gids : StartSetStatus(op, g)
    \/ \E c \in Rows(calls) : joinGroup_userExists(c)
    \/ \E c \in Rows(calls) : joinGroup_groupExists(c)
    \/ \E c \in Rows(calls) : joinGroup_isInGroup(c)
    \/ \E c \in Rows(calls) : joinGroup_group(c)
    \/ \E c \in Rows(calls) : joinGroup_insert(c)
    \/ \E c \in Rows(calls) : setStatus_groupExists(c)
    \/ \E c \in Rows(calls) : setStatus_update(c)

SpecLock == InitConcurrent /\ [][NextLock]_vars

\* ------------------------------------------- joins of a capped group
\* One group exists, created open with room for MaxUsers members.
MaxUsers == 1

InitCap ==
    /\ today = 1
    /\ midnight = TRUE
    /\ attempts = [u \in Users |-> 0]
    /\ sessions = {}
    /\ users = Users
    /\ groups = { [gid |-> 1, status |-> "open", max |-> MaxUsers,
                   name |-> GroupName(1), created |-> 1] }
    /\ memberships = EmptyBag
    /\ purchases = EmptyBag
    /\ incentivesAvailable = {}
    /\ incentives = EmptyBag
    /\ calls = EmptyBag
    /\ resp = NoResp

NextCap ==
    \/ \E u \in Users, g \in Gids : StartJoinGroup(u, g)
    \/ \E u \in Users, g \in Gids : StartLeaveGroup(u, g)
    \/ \E c \in Rows(calls) : joinGroup_userExists(c)
    \/ \E c \in Rows(calls) : joinGroup_groupExists(c)
    \/ \E c \in Rows(calls) : joinGroup_isInGroup(c)
    \/ \E c \in Rows(calls) : joinGroup_group(c)
    \/ \E c \in Rows(calls) : joinGroup_listGroupMembers(c)
    \/ \E c \in Rows(calls) : joinGroup_insert(c)
    \/ \E c \in Rows(calls) : leaveGroup_userExists(c)
    \/ \E c \in Rows(calls) : leaveGroup_groupExists(c)
    \/ \E c \in Rows(calls) : leaveGroup_isInGroup(c)
    \/ \E c \in Rows(calls) : leaveGroup_update(c)

SpecCap == InitCap /\ [][NextCap]_vars

\* ------------------------------------------ login, one await at a time
\* if(res[0].attempts >= 5)
LockoutAttempts == 5

\* Sessions.Expires defaults to DATE_ADD(NOW(), INTERVAL 1 MONTH); instants
\* are counted as NOW counts them.
Month == Midnight(DaysPerMonth)

\* The password every user registered with, the hash stored for it, and
\* bcrypt.compare(password, hash).
Passwords == {"secret", "guess"}
PwdHash(uname) == <<"bcrypt", "secret">>
compare(password, hash) == hash[2] = password

\* INSERT INTO Sessions (Token, UID) VALUES(ID_TO_BIN(UUID()), ?): a fresh
\* token, active, expiring in a month.
NewSession(uid) ==
    [token |-> Cardinality(sessions) + 1, uid |-> uid,
     expires |-> NOW + Month, active |-> TRUE]

\* SELECT ... FROM Sessions WHERE UID = ? ORDER BY Expires DESC LIMIT 1: the
\* rows it may return.
LatestSessions(uid) ==
    { x \in sessions :
        x.uid = uid /\ \A y \in sessions : y.uid = uid => y.expires <= x.expires }

\* POST /dashboard with a username and a password
StartLogin(uname, password) ==
    /\ Room(1, 0)
    /\ compare(password, PwdHash(uname)) =>
          Cardinality(sessions)
            + Cardinality({ c \in Rows(calls) :
                              c.op = "login" /\ compare(c.password, PwdHash(c.uname)) })
            < MaxSessions
    /\ calls' = calls (+) SetToBag({[Call("login", uname, 0, "select")
                                       EXCEPT !.password = password]})
    /\ UNCHANGED <<store, resp>>

\* SELECT Uname, PwdHash, FailedLoginAttempts FROM Users WHERE Uname = ?,
\* the two checks on its row, and bcrypt.compare.
login_select(c) ==
    /\ At(c, "login", "select")
    /\ calls' =
         IF ~userExists(c.uname) THEN Throw(c)
         ELSE IF attempts[c.uname] >= LockoutAttempts THEN Throw(c)
         ELSE IF ~compare(c.password, PwdHash(c.uname)) THEN Goto(c, "increment")
         ELSE Goto(c, "reset")
    /\ UNCHANGED <<store, resp>>

\* UPDATE Users SET FailedLoginAttempts = FailedLoginAttempts + 1 WHERE
\* Uname = ?, then 'Incorrect Password' is thrown.
login_increment(c) ==
    /\ At(c, "login", "increment")
    /\ attempts' = IF userExists(c.uname)
                   THEN [attempts EXCEPT ![c.uname] = @ + 1]
                   ELSE attempts
    /\ calls' = Throw(c)
    /\ UNCHANGED <<today, midnight, sessions, users, groups, memberships,
                   purchases, incentivesAvailable, incentives, resp>>

\* UPDATE Users SET FailedLoginAttempts = 0 WHERE Uname = ?
login_reset(c) ==
    /\ At(c, "login", "reset")
    /\ attempts' = IF userExists(c.uname)
                   THEN [attempts EXCEPT ![c.uname] = 0]
                   ELSE attempts
    /\ calls' = Goto(c, "insert")
    /\ UNCHANGED <<today, midnight, sessions, users, groups, memberships,
                   purchases, incentivesAvailable, incentives, resp>>

\* INSERT INTO Sessions (Token, UID) VALUES(..., (SELECT UID FROM Users
\* WHERE Uname = ?)): UID is NOT NULL.
login_insert(c) ==
    /\ At(c, "login", "insert")
    /\ sessions' = IF userExists(c.uname)
                   THEN sessions \cup {NewSession(c.uname)}
                   ELSE sessions
    /\ calls' = IF userExists(c.uname) THEN Goto(c, "lookup") ELSE Throw(c)
    /\ UNCHANGED <<today, midnight, attempts, users, groups, memberships,
                   purchases, incentivesAvailable, incentives, resp>>

\* SELECT BIN_TO_ID(Token) AS session FROM Sessions WHERE UID = ... ORDER BY
\* Expires DESC LIMIT 1; res[0] of no row is a TypeError.
login_lookup(c) ==
    /\ At(c, "login", "lookup")
    /\ \/ /\ LatestSessions(c.uname) = {}
          /\ calls' = Throw(c)
       \/ \E x \in LatestSessions(c.uname) :
             calls' = Advance(c, [c EXCEPT !.token = x.token, !.pc = "getDashboard"])
    /\ UNCHANGED <<store, resp>>

\* The closing getDashboard reads the store and the call settles.
login_getDashboard(c) ==
    /\ At(c, "login", "getDashboard")
    /\ calls' = Return(c)
    /\ UNCHANGED <<store, resp>>

NextLogin ==
    \/ \E u \in Users, p \in Passwords : StartLogin(u, p)
    \/ \E c \in Rows(calls) : login_select(c)
    \/ \E c \in Rows(calls) : login_increment(c)
    \/ \E c \in Rows(calls) : login_reset(c)
    \/ \E c \in Rows(calls) : login_insert(c)
    \/ \E c \in Rows(calls) : login_lookup(c)
    \/ \E c \in Rows(calls) : login_getDashboard(c)

SpecLogin == InitSnapshot /\ [][NextLogin]_vars

\* ------------------------------------------------------------- sessions
\* Session tokens a request may carry.
Tokens == 1 .. MaxSessions

\* new Date(today.getTime() + 1814400000): 21 days, three quarters of the
\* month a session lasts.
ThreeWeeks == (3 * Month) \div 4

\* WHERE Sessions.Token = ID_TO_BIN(?) AND Sessions.Expires > NOW() AND
\* Sessions.Active = 1
ActiveSessions(sessionToken) ==
    { x \in sessions : x.token = sessionToken /\ x.expires > NOW /\ x.active }

\* UPDATE Sessions SET Active = 0 WHERE Token = ID_TO_BIN(?)
Deactivated_none(sessionToken) == sessions
Deactivated(sessionToken) ==
    { IF x.token = sessionToken THEN [x EXCEPT !.active = FALSE] ELSE x :
        x \in sessions }

\* refreshSession(sessionToken): the Sessions table it leaves, and the
\* tokens it may return. res[0].uid of an empty result is a TypeError raised
\* after the UPDATE.
refreshSession(sessionToken) ==
    LET res == ActiveSessions(sessionToken)
        closed == Deactivated(sessionToken)
        uid == (CHOOSE x \in res : TRUE).uid
        opened == closed \cup
                    {[token |-> Cardinality(sessions) + 1, uid |-> uid,
                      expires |-> NOW + Month, active |-> TRUE]}
    IN  IF res = {}
        THEN [sessions |-> closed, out |-> {Err("TypeError")}]
        ELSE [sessions |-> opened,
              out |-> { Ok(x.token) :
                          x \in { y \in opened :
                                    /\ y.uid = uid
                                    /\ \A z \in opened :
                                         z.uid = uid => z.expires <= y.expires } }]

\* validateSession(uname, sessionToken)
validateSession(uname, sessionToken) ==
    LET res == { x \in ActiveSessions(sessionToken) :
                   userExists(uname) /\ x.uid = uname }
        expires == (CHOOSE x \in res : TRUE).expires
    IN  IF res = {}
        THEN [sessions |-> sessions, out |-> {Err("Invalid Session")}]
        ELSE IF expires < NOW + ThreeWeeks
        THEN refreshSession(sessionToken)
        ELSE [sessions |-> sessions, out |-> {Ok(sessionToken)}]

ValidateSession(uname, sessionToken) ==
    LET done == validateSession(uname, sessionToken)
    IN  /\ resp = NoResp
        /\ Cardinality(done.sessions) <= MaxSessions
        /\ sessions' = done.sessions
        /\ \E out \in done.out :
             resp' = Answer("validateSession", uname, sessionToken, out)
        /\ UNCHANGED <<today, midnight, attempts, users, groups, memberships,
                       purchases, incentivesAvailable, incentives, calls>>

\* getFullUser(sessionToken)
getFullUser(sessionToken) ==
    LET res == { x \in ActiveSessions(sessionToken) : TRUE }
    IN  IF res = {} THEN Err("Invalid Session Token")
        ELSE Ok(IF userExists((CHOOSE x \in res : TRUE).uid)
                THEN (CHOOSE x \in res : TRUE).uid
                ELSE NULL)

\* SELECT BIN_TO_ID(Memberships.GID) AS groupID FROM Memberships RIGHT JOIN
\* Sessions ON Memberships.UID = Sessions.UID WHERE Sessions.Token = ... AND
\* Sessions.Expires > NOW() AND Sessions.Active = 1: one row for each
\* Memberships row of the session's user, and one row of NULLs for a session
\* whose user has none. The rows are held as a bag of group IDs.
dashboardGroups(sessionToken) ==
    LET own == { m \in Rows(memberships) :
                   \E x \in ActiveSessions(sessionToken) : m.uid = x.uid }
        rowsOf(g) == SumOver({ m \in own : m.gid = g }, memberships)
        joined == { m.gid : m \in own }
    IN  IF ActiveSessions(sessionToken) = {} THEN EmptyBag
        ELSE IF own = {} THEN SetToBag({NULL})
        ELSE [g \in joined |-> rowsOf(g)]

\* getDashboard(sessionToken): groups holds getGroup of every row, as a bag.
getDashboard(sessionToken) ==
    LET user == getFullUser(sessionToken)
        rows == dashboardGroups(sessionToken)
        failed == { g \in Rows(rows) : ~getGroup(g).ok }
        groupOf(g) == getGroup(g).value
        listed == { groupOf(g) : g \in Rows(rows) }
    IN  IF ~user.ok THEN user
        ELSE IF failed # {} THEN getGroup(CHOOSE g \in failed : TRUE)
        ELSE Ok([user |-> user.value,
                 memberships |-> BagCardinality(rows),
                 groups |-> [v \in listed |->
                               SumOver({ g \in Rows(rows) : groupOf(g) = v }, rows)]])

GetDashboard(sessionToken) ==
    /\ resp = NoResp
    /\ resp' = Answer("getDashboard", 0, sessionToken, getDashboard(sessionToken))
    /\ UNCHANGED <<store, calls>>

\* Sessions are opened by one login at a time, with the user's password.
NextSession ==
    \/ Reply
    \/ Tick
    \/ Tock
    \/ \E u \in Users : calls = EmptyBag /\ StartLogin(u, "secret")
    \/ \E c \in Rows(calls) : login_select(c)
    \/ \E c \in Rows(calls) : login_reset(c)
    \/ \E c \in Rows(calls) : login_insert(c)
    \/ \E c \in Rows(calls) : login_lookup(c)
    \/ \E c \in Rows(calls) : login_getDashboard(c)
    \/ \E u \in Users, t \in Tokens : ValidateSession(u, t)
    \/ \E t \in Tokens : GetDashboard(t)

SpecSession == InitSnapshot /\ [][NextSession]_vars

\* Members join and leave the one group while sessions are opened and
\* dashboards are read.
NextDashboard ==
    \/ Reply
    \/ \E u \in Users : calls = EmptyBag /\ StartLogin(u, "secret")
    \/ \E c \in Rows(calls) : login_select(c)
    \/ \E c \in Rows(calls) : login_reset(c)
    \/ \E c \in Rows(calls) : login_insert(c)
    \/ \E c \in Rows(calls) : login_lookup(c)
    \/ \E c \in Rows(calls) : login_getDashboard(c)
    \/ \E u \in Users, g \in Gids : JoinGroup(u, g)
    \/ \E u \in Users, g \in Gids : LeaveGroup(u, g)
    \/ \E t \in Tokens : GetDashboard(t)

SpecDashboard == InitSnapshot /\ [][NextDashboard]_vars

\* ------------------------------------- addPurchase, one await at a time
CascadeIids == 1..MaxCascade
CascadeName(i) == IF i = 1 THEN "chores" ELSE "dishes"

\* UPDATE Users SET Uname = ? WHERE Uname = ?: the old username no longer
\* names a row of Users (the new one is a name no request here uses).
ChangeUsername(oldUname) ==
    /\ oldUname \in users
    /\ users' = users \ {oldUname}
    /\ UNCHANGED <<today, midnight, attempts, sessions, groups, memberships, purchases,
                   incentivesAvailable, incentives, calls, resp>>

\* POST /purchase
StartAddPurchase(uname, groupID, amount, storeName, date) ==
    /\ \A x \in Rows(calls) : x.op \notin {"addPurchase", "addIncentive"}
    /\ BagCardinality(purchases) + BagCardinality(incentives)
         + 1 + Cardinality(incentivesAvailable) <= MaxLedger
    /\ calls' = calls (+) SetToBag({
           [Call("addPurchase", uname, groupID, "userExists")
              EXCEPT !.amount = amount, !.store = storeName, !.date = date]})
    /\ UNCHANGED <<store, resp>>

addPurchase_userExists(c) ==
    /\ At(c, "addPurchase", "userExists")
    /\ calls' = IF userExists(c.uname) THEN Goto(c, "groupExists") ELSE Throw(c)
    /\ UNCHANGED <<store, resp>>

addPurchase_groupExists(c) ==
    /\ At(c, "addPurchase", "groupExists")
    /\ calls' = IF groupExists(c.gid) THEN Goto(c, "isInGroup") ELSE Throw(c)
    /\ UNCHANGED <<store, resp>>

addPurchase_isInGroup(c) ==
    /\ At(c, "addPurchase", "isInGroup")
    /\ calls' = IF isInGroup(c.uname, c.gid) THEN Goto(c, "select") ELSE Throw(c)
    /\ UNCHANGED <<store, resp>>

\* The orders a query without ORDER BY may return the rows of S in.
Orders(S) ==
    { q \in [1..Cardinality(S) -> S] : \A i, j \in DOMAIN q : q[i] = q[j] => i = j }

\* SELECT ... AS incentiveID FROM IncentivesAvailable WHERE ..., then
\* res.map(addIncentive): every addIncentive is started, with the note and
\* no date, before any is awaited.  Promise.all([]) resolves at once.
addPurchase_select(c) ==
    \E res \in Orders({ a.iid : a \in OnPurchaseIncentives(c.gid) }) :
        LET adds == { [Call("addIncentive", c.uname, c.gid, "userExists")
                         EXCEPT !.parent = TRUE, !.iid = res[k], !.order = k,
                                !.notes = PurchaseNote(c.date)] :
                      k \in DOMAIN res }
        IN  /\ At(c, "addPurchase", "select")
            /\ calls' =
                 Advance(c, [c EXCEPT !.selected = res, !.pending = Len(res),
                                      !.pc = IF res = <<>> THEN "insert"
                                             ELSE "Promise.all"])
                 (+) SetToBag(adds)
            /\ UNCHANGED <<store, resp>>

addIncentive_userExists(c) ==
    /\ At(c, "addIncentive", "userExists")
    /\ calls' = IF userExists(c.uname) THEN Goto(c, "incentiveExists") ELSE Throw(c)
    /\ UNCHANGED <<store, resp>>

addIncentive_incentiveExists(c) ==
    /\ At(c, "addIncentive", "incentiveExists")
    /\ calls' = IF incentiveExists(c.iid) THEN Goto(c, "insert") ELSE Throw(c)
    /\ UNCHANGED <<store, resp>>

\* INSERT INTO Incentives (UID, ...) VALUES((SELECT UID FROM Users WHERE
\* Uname = ?), ...): UID is NOT NULL, so the statement fails for a username
\* that names no row.  date is new Date().
addIncentive_insert(c) ==
    /\ At(c, "addIncentive", "insert")
    /\ incentives' =
         IF userExists(c.uname)
         THEN Insert(incentives, Realization(c.uname, c.iid, c.notes, today))
         ELSE incentives
    /\ calls' = IF userExists(c.uname) THEN Return(c) ELSE Throw(c)
    /\ UNCHANGED <<today, midnight, attempts, sessions, users, groups, memberships, purchases,
                   incentivesAvailable, resp>>

\* INSERT INTO Purchases (UID, ...) VALUES((SELECT UID FROM Users WHERE
\* Uname = ?), ...)
addPurchase_insert(c) ==
    /\ At(c, "addPurchase", "insert")
    /\ purchases' =
         IF userExists(c.uname)
         THEN Insert(purchases,
                     [uid |-> c.uname, gid |-> c.gid, date |-> DATE(toISODate(c.date)),
                      store |-> c.store, amount |-> c.amount, notes |-> <<>>])
         ELSE purchases
    /\ calls' = IF userExists(c.uname) THEN Return(c) ELSE Throw(c)
    /\ UNCHANGED <<today, midnight, attempts, sessions, users, groups, memberships,
                   incentivesAvailable, incentives, resp>>

\* Group 1 with user 1 as a member and its on-purchase incentives, all
\* created earlier in the day.
InitCascade ==
    /\ today = 1
    /\ midnight = FALSE
    /\ attempts = [u \in Users |-> 0]
    /\ sessions = {}
    /\ users = Users
    /\ groups = { [gid |-> 1, status |-> "open", max |-> NULL,
                   name |-> GroupName(1), created |-> 1] }
    /\ memberships = SetToBag({[uid |-> 1, gid |-> 1, joined |-> 1, left |-> NULL]})
    /\ purchases = EmptyBag
    /\ incentivesAvailable =
         { [iid |-> i, gid |-> 1, name |-> CascadeName(i), amount |-> 500,
            begin |-> 1, end |-> NULL, onPurchase |-> TRUE] : i \in CascadeIids }
    /\ incentives = EmptyBag
    /\ calls = EmptyBag
    /\ resp = NoResp

NextCascade ==
    \/ \E u \in Users : ChangeUsername(u)
    \/ \E u \in Users, g \in Gids, a \in Amounts, s \in Stores, d \in Dates :
         StartAddPurchase(u, g, a, s, d)
    \/ \E c \in Rows(calls) : addPurchase_userExists(c)
    \/ \E c \in Rows(calls) : addPurchase_groupExists(c)
    \/ \E c \in Rows(calls) : addPurchase_isInGroup(c)
    \/ \E c \in Rows(calls) : addPurchase_select(c)
    \/ \E c \in Rows(calls) : addIncentive_userExists(c)
    \/ \E c \in Rows(calls) : addIncentive_incentiveExists(c)
    \/ \E c \in Rows(calls) : addIncentive_insert(c)
    \/ \E c \in Rows(calls) : addPurchase_insert(c)

SpecCascade == InitCascade /\ [][NextCascade]_vars

\* Incentives defined and realized by hand, for groups and users that
\* exist or not: one group exists, and a user may have been renamed.
NextIncentive ==
    \/ Reply
    \/ \E u \in Users : ChangeUsername(u)
    \/ \E g \in Gids, n \in IncentiveNames, a \in IncentiveAmounts, o \in BOOLEAN :
         CreateNewIncentive(g, n, a, o)
    \/ \E u \in Users, i \in Iids : AddIncentive(u, i, today)

SpecIncentive == InitConcurrent /\ [][NextIncentive]_vars


\* ======================================================================
\* Properties
\* ======================================================================
\* The last request was getGroupTransactions(AskGid, AskFrom, AskTo), the
\* store is as it was read, and (Answered) the call resolved to a report.
Asked == resp.op = "getGroupTransactions"
Answered == Asked /\ resp.out.ok
AskGid == resp.gid
AskFrom == resp.from
AskTo == resp.to
Report == resp.out.value
Settlements == resp.out.value.settlements

\* A Membership interval is active during [from,to].
ActiveDuring(m, from, to) ==
    m.joined <= to /\ (m.left = NULL \/ m.left >= from)

\* The users with at least one interval of the group active during [from,to].
ActiveMembers(g, from, to) ==
    { u \in Users : \E m \in Rows(memberships) :
                      m.uid = u /\ m.gid = g /\ ActiveDuring(m, from, to) }

ActiveCount(g, from, to) == Cardinality(ActiveMembers(g, from, to))

\* A user's own Purchase records of the group dated in [from,to].
OwnPurchases(u, g, from, to) ==
    { p \in Rows(purchases) :
        p.uid = u /\ p.gid = g /\ from <= p.date /\ p.date <= to }
OwnPurchaseSum(u, g, from, to) ==
    LET ps == OwnPurchases(u, g, from, to)
    IN  SumOver(ps, [p \in ps |-> CopiesIn(p, purchases) * p.amount])
OwnPurchaseCount(u, g, from, to) ==
    LET ps == OwnPurchases(u, g, from, to)
    IN  SumOver(ps, [p \in ps |-> CopiesIn(p, purchases)])

\* The group's expense over [from,to]: its purchases, plus for every
\* realization in range the amount of its definition if that is the group's.
GroupPurchases(g, from, to) ==
    { p \in Rows(purchases) : p.gid = g /\ from <= p.date /\ p.date <= to }
IsOfGroup(i, g) == \E a \in incentivesAvailable : a.iid = i.iid /\ a.gid = g
CreditOf(i, g) ==
    (CHOOSE a \in incentivesAvailable : a.iid = i.iid /\ a.gid = g).amount
GroupRealizations(g, from, to) ==
    { i \in Rows(incentives) : from <= i.date /\ i.date <= to /\ IsOfGroup(i, g) }
GroupExpenseTotal(g, from, to) ==
    LET ps == GroupPurchases(g, from, to)
        is == GroupRealizations(g, from, to)
    IN  SumOver(ps, [p \in ps |-> CopiesIn(p, purchases) * p.amount])
        + SumOver(is, [i \in is |-> CopiesIn(i, incentives) * CreditOf(i, g)])

RECURSIVE SumOwes(_, _)
SumOwes(rows, n) == IF n = 0 THEN 0 ELSE rows[n].owes + SumOwes(rows, n - 1)

Abs(x) == IF x < 0 THEN -x ELSE x

\* The open (LeftGroup NULL) Membership rows of a (user, group) pair.
OpenMemberships(u, g) ==
    LET open == { m \in Rows(memberships) :
                    m.uid = u /\ m.gid = g /\ m.left = NULL }
    IN  SumOver(open, [m \in open |-> CopiesIn(m, memberships)])

\* C1: whatever the interleaving of joinGroup, leaveGroup and createGroup
\* calls, each (user, group) pair has at most one Membership record whose
\* left-date is null.
C1_AtMostOneOpenMembership ==
    \A u \in Users, g \in Gids : OpenMemberships(u, g) <= 1

\* C2: a settlement requested for a range with no active member signals
\* NoActiveMembers and returns no report.
C2_NoActiveMembersSignalled ==
    (Asked /\ ActiveCount(AskGid, AskFrom, AskTo) = 0)
        => (~resp.out.ok /\ resp.out.error = "NoActiveMembers")

\* C3 as claimed: with count >= 1 active members and total in cents, the
\* groupShare of CALC_SHARE satisfies
\* 0 <= total - count * groupShare <= count - 1 cents.
C3_RemainderWithinCents ==
    (Asked /\ ActiveCount(AskGid, AskFrom, AskTo) >= 1) =>
        LET count == ActiveCount(AskGid, AskFrom, AskTo)
            total == GroupExpenseTotal(AskGid, AskFrom, AskTo)
            share == Number(CALC_SHARE(AskGid, AskFrom, AskTo))
        IN  0 <= total - count * share /\ total - count * share <= count - 1

\* C3 as amended: groupShare is a whole number of currency units and the
\* remainder total - count * groupShare is smaller than count currency
\* units (at most 100 * count - 1 cents), on the side of zero total is on.
C3_RemainderWithinUnits ==
    (Asked /\ ActiveCount(AskGid, AskFrom, AskTo) >= 1) =>
        LET count == ActiveCount(AskGid, AskFrom, AskTo)
            total == GroupExpenseTotal(AskGid, AskFrom, AskTo)
            share == CALC_SHARE(AskGid, AskFrom, AskTo)
            rem == total - count * Number(share)
        IN  /\ share # SqlNull
            /\ Number(share) % 100 = 0
            /\ Abs(rem) <= 100 * count - 1
            /\ total >= 0 => rem >= 0
            /\ total <= 0 => rem <= 0

\* C3 witness: a settlement was asked for a range with an active member
\* whose remainder is beyond count - 1 cents.
C3_Witness ==
    /\ Asked
    /\ ActiveCount(AskGid, AskFrom, AskTo) >= 1
    /\ GroupExpenseTotal(AskGid, AskFrom, AskTo)
         - ActiveCount(AskGid, AskFrom, AskTo)
           * Number(CALC_SHARE(AskGid, AskFrom, AskTo))
         > ActiveCount(AskGid, AskFrom, AskTo) - 1

\* C4: in every settlement row, totalPurchases and countPurchases are the
\* sum and the number of that user's own purchases of that group in range.
C4_OwnPurchasesOnly ==
    Answered =>
        \A k \in 1..Len(Settlements) :
            LET r == Settlements[k]
            IN  /\ r.totalPurchases
                     = OwnPurchaseSum(r.uname, AskGid, AskFrom, AskTo)
                /\ r.countPurchases
                     = OwnPurchaseCount(r.uname, AskGid, AskFrom, AskTo)

\* C5: the settlement has exactly one row for each member active during
\* [from,to] and no row for anyone else.
C5_RowsAreActiveMembers ==
    Answered =>
        /\ { Settlements[k].uname : k \in 1..Len(Settlements) }
             = ActiveMembers(AskGid, AskFrom, AskTo)
        /\ Len(Settlements) = ActiveCount(AskGid, AskFrom, AskTo)

\* C6: in every settlement row totalContribution = totalPurchases +
\* totalIncentives and owes = groupShare - totalContribution, groupShare
\* being the one CALC_SHARE value of the call (a NULL share counts as 0);
\* with 2 active members and total 100.00, contributing 30.00 owes 20.00
\* and contributing 70.00 owes -20.00.
C6_OwesIsShareMinusContribution ==
    Answered =>
        \A k \in 1..Len(Settlements) :
            LET r == Settlements[k]
                share == Number(CALC_SHARE(AskGid, AskFrom, AskTo))
            IN  /\ r.totalContribution = r.totalPurchases + r.totalIncentives
                /\ r.owes = share - r.totalContribution
                /\ (/\ ActiveCount(AskGid, AskFrom, AskTo) = 2
                    /\ GroupExpenseTotal(AskGid, AskFrom, AskTo) = 10000)
                   => /\ r.totalContribution = 3000 => r.owes = 2000
                      /\ r.totalContribution = 7000 => r.owes = -2000

\* C6 witness: the report of a group of 2 active members and total 100.00
\* whose rows contributed 30.00 and 70.00.
C6_Witness ==
    /\ Answered
    /\ ActiveCount(AskGid, AskFrom, AskTo) = 2
    /\ GroupExpenseTotal(AskGid, AskFrom, AskTo) = 10000
    /\ Len(Settlements) = 2
    /\ Settlements[1].totalContribution = 3000 /\ Settlements[1].owes = 2000
    /\ Settlements[2].totalContribution = 7000 /\ Settlements[2].owes = -2000

\* C7: with count >= 1 active members, the owes of all rows of the
\* settlement add up to at most count - 1 cents away from zero.
C7_OwesSumNearZero ==
    (Answered /\ ActiveCount(AskGid, AskFrom, AskTo) >= 1) =>
        Abs(SumOwes(Settlements, Len(Settlements)))
            <= ActiveCount(AskGid, AskFrom, AskTo) - 1

\* C8: SUM_EXPENSES and the report's total equal the group's purchases in
\* range plus the definition amounts of the group's realizations in range,
\* and 0 when nothing matches.
C8_TotalIsGroupExpense ==
    /\ Asked =>
         SUM_EXPENSES(AskGid, STR_TO_DATE(toLocaleDateString(AskFrom)),
                      STR_TO_DATE(toLocaleDateString(AskTo)))
           = GroupExpenseTotal(AskGid, AskFrom, AskTo)
    /\ Answered =>
         /\ Report.total = GroupExpenseTotal(AskGid, AskFrom, AskTo)
         /\ (/\ GroupPurchases(AskGid, AskFrom, AskTo) = {}
             /\ GroupRealizations(AskGid, AskFrom, AskTo) = {})
            => Report.total = 0

\* C8 witness: a report whose total adds a purchase and a realization of
\* the group, both dated in the range asked.
C8_Witness ==
    /\ Answered
    /\ GroupPurchases(AskGid, AskFrom, AskTo) # {}
    /\ GroupRealizations(AskGid, AskFrom, AskTo) # {}
    /\ Report.total = GroupExpenseTotal(AskGid, AskFrom, AskTo)
    /\ Report.total # 0

\* C9: SUM_EXPENSES is additive over adjacent ranges: for a < b < c the
\* total over [a,c] is the total over [a,b] plus the total over [b+1,c].
C9_TotalIsAdditive ==
    \A g \in Gids, a \in Dates, b \in Dates, c \in Dates :
        (a < b /\ b < c) =>
            SUM_EXPENSES(g, a, c) = SUM_EXPENSES(g, a, b) + SUM_EXPENSES(g, b + 1, c)

\* C9 witness: a total asked over [a,c] whose two parts [a,b] and [b+1,c]
\* are both non-zero.
C9_Witness ==
    /\ Answered
    /\ \E b \in Dates :
         /\ AskFrom < b /\ b < AskTo
         /\ SUM_EXPENSES(AskGid, AskFrom, b) # 0
         /\ SUM_EXPENSES(AskGid, b + 1, AskTo) # 0
         /\ Report.total = SUM_EXPENSES(AskGid, AskFrom, b)
                             + SUM_EXPENSES(AskGid, b + 1, AskTo)

\* C10: COUNT_MEMBERS is the number of distinct users with an interval of
\* the group active during [from,to]; a user with two such intervals
\* counts once.
C10_CountIsDistinctActiveUsers ==
    \A g \in Gids, f \in Dates, t \in Dates :
        COUNT_MEMBERS(g, f, t) = ActiveCount(g, f, t)

\* C10 witness: a range asked in which one user has two intervals of the
\* group (left and rejoined), another user left before it, and the count
\* is 1.
C10_Witness ==
    /\ Asked
    /\ \E m1 \in Rows(memberships), m2 \in Rows(memberships) :
         /\ m1 # m2 /\ m1.uid = m2.uid
         /\ m1.gid = AskGid /\ m2.gid = AskGid
         /\ ActiveDuring(m1, AskFrom, AskTo) /\ ActiveDuring(m2, AskFrom, AskTo)
    /\ \E m \in Rows(memberships) :
         m.gid = AskGid /\ ~ActiveDuring(m, AskFrom, AskTo)
    /\ COUNT_MEMBERS(AskGid, AskFrom, AskTo) = 1

\* C11: a range query called with from > to signals InvalidRange; it never
\* answers with a report.
C11_InvalidRangeSignalled ==
    (Asked /\ AskFrom > AskTo)
        => (~resp.out.ok /\ resp.out.error = "InvalidRange")

\* The Purchase rows a step appends, and the number of realizations of
\* definition i it appends for user u.
AppendedPurchases ==
    { p \in Rows(purchases') : CopiesIn(p, purchases') > CopiesIn(p, purchases) }
RealizationsAdded(u, i) ==
    LET rs == { r \in Rows(incentives') : r.uid = u /\ r.iid = i }
    IN  SumOver(rs, [r \in rs |-> CopiesIn(r, incentives') - CopiesIn(r, incentives)])

\* A definition in force for a purchase of group g made now: on-purchase,
\* effectiveFrom <= now and effectiveUntil null or > now.
InForce(a, g) ==
    /\ a.gid = g
    /\ a.onPurchase
    /\ Midnight(a.begin) <= NOW
    /\ (a.end = NULL \/ Midnight(a.end) > NOW)

\* C12: a successful addPurchase(user, group) creates exactly one realization
\* for user for each definition of the group in force, and none for any
\* other definition or any other user.
C12_OneRealizationPerDefinitionInForce ==
    [][\A p \in AppendedPurchases :
         \A a \in incentivesAvailable, u \in Users :
            RealizationsAdded(u, a.iid)
              = IF u = p.uid /\ InForce(a, p.gid) THEN 1 ELSE 0]_vars

\* The realization rows a step appends.
AppendedRealizations ==
    { r \in Rows(incentives') : CopiesIn(r, incentives') > CopiesIn(r, incentives) }

\* C13: every realization the cascade of addPurchase creates is dated the
\* purchase's date, and its note references that date.
C13_CascadeDatedAsPurchase ==
    [][\A p \in AppendedPurchases :
         \A r \in AppendedRealizations :
            /\ r.date = p.date
            /\ r.notes # <<>>
            /\ STR_TO_DATE(r.notes[2]) = p.date]_vars

\* Calls of one operation in flight.
InFlight(op) ==
    LET cs == { c \in Rows(calls) : c.op = op }
    IN  SumOver(cs, [c \in cs |-> CopiesIn(c, calls)])

\* C14: the Purchase of an addPurchase is appended only after every
\* cascade insert of that call has completed: at the step that appends it
\* the call awaits none of its addIncentive calls, none of them is still in
\* flight, and each definition it selected has its realization stored.
C14_PurchaseAfterCascade ==
    [][\A c \in Rows(calls) :
         (At(c, "addPurchase", "insert") /\ purchases' # purchases)
           => /\ c.pending = 0
              /\ InFlight("addIncentive") = 0
              /\ \A k \in DOMAIN c.selected :
                    CopiesIn(Realization(c.uname, c.selected[k],
                                         PurchaseNote(c.date), today),
                             incentives) >= 1]_vars

\* A purchase is stored together with the realizations of a cascade over
\* every on-purchase definition of its group.
C14_Witness ==
    \E p \in Rows(purchases) :
        \A i \in CascadeIids :
            \E r \in Rows(incentives) :
                r.uid = p.uid /\ r.iid = i /\ r.notes # <<>>
                /\ STR_TO_DATE(r.notes[2]) = p.date

\* C15: when the addIncentive of a non-first selected definition fails,
\* the addPurchase that started it is not aborted: it is still in flight
\* after the failing step.
C15_CascadeFailureNotFatal ==
    [][\A c \in Rows(calls) :
         (/\ c.op = "addIncentive" /\ c.parent /\ c.order > 1
          /\ Awaiting(c) # {}
          /\ CopiesIn(c, calls') < CopiesIn(c, calls)
          /\ InFlight("addIncentive")' < InFlight("addIncentive")
          /\ incentives' = incentives)
           => \E p \in Rows(calls') : p.op = "addPurchase"]_vars

\* C16: addPurchase by a user with no open Membership in the group signals
\* 'User Not In Group' and leaves the store unchanged: a Purchase or a
\* cascade realization is appended only for a user whose Membership in the
\* group was open, and a refused addPurchase writes nothing.
C16_NonMemberPurchaseRefused ==
    [][/\ \A p \in AppendedPurchases :
             \E m \in Rows(memberships) :
                 m.uid = p.uid /\ m.gid = p.gid /\ m.left = NULL
       /\ \A r \in AppendedRealizations :
             r.notes # <<>> =>
                 \E m \in Rows(memberships), a \in incentivesAvailable :
                     /\ a.iid = r.iid /\ m.gid = a.gid
                     /\ m.uid = r.uid /\ m.left = NULL
       /\ resp'.op = "addPurchase" =>
             /\ store' = store
             /\ resp'.out = Err("User Not In Group")
             /\ ~\E m \in Rows(memberships) :
                    m.uid = resp'.uname /\ m.gid = resp'.gid /\ m.left = NULL]_vars

\* A user who has left the group is refused.
C16_Witness ==
    /\ resp.op = "addPurchase"
    /\ resp.out = Err("User Not In Group")
    /\ \E m \in Rows(memberships) :
          m.uid = resp.uname /\ m.gid = resp.gid /\ m.left # NULL

\* The records of a group dated within [f, t], tagged by kind.
ExpectedPurchases(g, f, t) ==
    { p \in Rows(purchases) : p.gid = g /\ f <= p.date /\ p.date <= t }
ExpectedRealizations(g, f, t) ==
    { r \in Rows(incentives) : IsOfGroup(r, g) /\ f <= r.date /\ r.date <= t }
Returned(kind) ==
    { i \in DOMAIN resp.out.value : resp.out.value[i].type = kind }

\* C17: getTransactionRecords(group, from, to) returns exactly the group's
\* purchases and the realizations of the group's definitions dated d with
\* from <= d <= to, each tagged by its kind: as many 'purchase' records as
\* such purchases, as many 'incentive' records as such realizations, and
\* every returned record dated within the bounds of the call.
C17_RecordsWithinCallBounds ==
    resp.op = "getTransactionRecords" =>
        LET ps == ExpectedPurchases(resp.gid, resp.from, resp.to)
            rs == ExpectedRealizations(resp.gid, resp.from, resp.to)
        IN  /\ Cardinality(Returned("purchase"))
                 = SumOver(ps, [p \in ps |-> CopiesIn(p, purchases)])
            /\ Cardinality(Returned("incentive"))
                 = SumOver(rs, [r \in rs |-> CopiesIn(r, incentives)])
            /\ \A i \in DOMAIN resp.out.value :
                  /\ resp.from <= resp.out.value[i].date
                  /\ resp.out.value[i].date <= resp.to

\* C18: when the store holds, of the group and within the range of the
\* call, the one purchase just added and no realization, the answer of
\* getTransactionRecords is exactly one record, of kind 'purchase', with
\* the amount, store and notes of that purchase.
C18_PurchaseRoundTrip ==
    resp.op = "getTransactionRecords" =>
        LET ps == ExpectedPurchases(resp.gid, resp.from, resp.to)
            rs == ExpectedRealizations(resp.gid, resp.from, resp.to)
        IN  (/\ rs = {}
             /\ SumOver(ps, [p \in ps |-> CopiesIn(p, purchases)]) = 1)
              => /\ Len(resp.out.value) = 1
                 /\ \A p \in ps :
                       /\ resp.out.value[1].type = "purchase"
                       /\ resp.out.value[1].amount = p.amount
                       /\ resp.out.value[1].store = Val(p.store)
                       /\ resp.out.value[1].notes = p.notes

Intervals(ms, u, g, j) ==
    LET rows == { m \in Rows(ms) : m.uid = u /\ m.gid = g /\ m.joined = j }
    IN  SumOver(rows, [m \in rows |-> CopiesIn(m, ms)])

\* C20: the ledger is append-only: in every step each Purchase and each
\* IncentiveRealization row stays as it is, each Membership row whose
\* left-date is set stays as it is, and the number of Membership rows of a
\* user in a group with a given joined-date never drops (no row is removed
\* and no joined-date changes).
C20_LedgerAppendOnly ==
    [][/\ \A p \in Rows(purchases) :
             CopiesIn(p, purchases') >= CopiesIn(p, purchases)
       /\ \A r \in Rows(incentives) :
             CopiesIn(r, incentives') >= CopiesIn(r, incentives)
       /\ \A m \in Rows(memberships) :
             /\ m.left # NULL
                  => CopiesIn(m, memberships') >= CopiesIn(m, memberships)
             /\ Intervals(memberships', m.uid, m.gid, m.joined)
                  >= Intervals(memberships, m.uid, m.gid, m.joined)]_vars

\* A user has left a group, rejoined on a later day and left again, with a
\* purchase in the ledger.
C20_Witness ==
    /\ purchases # EmptyBag
    /\ \E m, n \in Rows(memberships) :
          /\ m.uid = n.uid /\ m.gid = n.gid
          /\ m.left # NULL /\ n.left # NULL
          /\ m.left < n.joined

\* Membership rows of a group.
RowsOfGroup(ms, g) ==
    LET rows == { m \in Rows(ms) : m.gid = g }
    IN  SumOver(rows, [m \in rows |-> CopiesIn(m, ms)])

\* C21: while a group's status is 'locked' its Membership rows do not
\* grow: no step taken in a state where the group is locked adds a
\* Membership of that group, whatever lockGroup and joinGroup calls are in
\* flight.
C21_LockedGroupDoesNotGrow ==
    [][\A r \in groups :
          r.status = "locked"
            => RowsOfGroup(memberships', r.gid) <= RowsOfGroup(memberships, r.gid)]_vars

\* C22: every Purchase row has amount >= 0.
C22_PurchaseAmountsNotNegative ==
    \A p \in Rows(purchases) : p.amount >= 0

\* C23: createNewIncentive for a group that does not exist signals 'Group
\* Not Found' and addIncentive for a user or an incentive that does not
\* exist signals 'User Not Found' or 'Incentive Not Found', and nothing is
\* written: a definition is added only to an existing group, a realization
\* only for an existing user and an existing incentive, and a refused
\* request leaves the store as it was.
C23_IncentiveChecksBeforeWriting ==
    [][/\ \A a \in incentivesAvailable' \ incentivesAvailable : groupExists(a.gid)
       /\ \A r \in AppendedRealizations :
             userExists(r.uid) /\ incentiveExists(r.iid)
       /\ (resp' # resp /\ resp'.op = "createNewIncentive") =>
             /\ store' = store
             /\ ~groupExists(resp'.gid) <=> resp'.out = Err("Group Not Found")
       /\ (resp' # resp /\ resp'.op = "addIncentive") =>
             /\ store' = store
             /\ ~userExists(resp'.uname) <=> resp'.out = Err("User Not Found")
             /\ userExists(resp'.uname) =>
                   /\ resp'.out = Err("Incentive Not Found")
                   /\ \E i \in Iids : ~incentiveExists(i)]_vars

\* A definition for a group that does not exist is refused, in a store
\* that holds a realization written for a user since renamed.
C23_Witness ==
    /\ resp.op = "createNewIncentive"
    /\ resp.out = Err("Group Not Found")
    /\ incentives # EmptyBag
    /\ users # Users

\* C24: a snapshot asked of a group that does not exist, by getGroup or by
\* getGroupTransactions, is answered with 'Group Not Found'.
C24_UnknownGroupSignalled ==
    (resp.op \in {"getGroup", "getGroupTransactions"} /\ ~groupExists(resp.gid))
        => resp.out = Err("Group Not Found")

\* A user's realizations of the group's definitions dated in [from,to].
OwnRealizations(u, g, from, to) ==
    { i \in GroupRealizations(g, from, to) : i.uid = u }

\* C25: in every settlement row, totalIncentives and countIncentives are
\* the sum and the number of the realizations, dated in [from,to], that
\* the user named in the row has of this group's definitions; the two
\* queries merged by row index name the same users in the same order
\* (for a range with from <= to).
C25_IncentivesOfTheRowsUser ==
    (Asked /\ AskFrom <= AskTo) =>
        /\ Answered =>
              \A k \in 1..Len(Settlements) :
                  LET r == Settlements[k]
                      own == OwnRealizations(r.uname, AskGid, AskFrom, AskTo)
                  IN  /\ r.totalIncentives
                           = SumOver(own, [i \in own |->
                                 CopiesIn(i, incentives) * CreditOf(i, AskGid)])
                      /\ r.countIncentives
                           = SumOver(own, [i \in own |-> CopiesIn(i, incentives)])
        /\ LET data0 == PurchaseQuery(AskGid, AskFrom, AskTo)
               data1 == IncentiveQuery(AskGid, AskFrom, AskTo)
           IN  [k \in DOMAIN data0 |-> data0[k].uname]
                 = [k \in DOMAIN data1 |-> data1[k].uname]

\* C26: in every report of getGroupTransactions, countRecords =
\* countPurchases + countIncentives is the number of entries of records,
\* countPurchases the number of entries tagged 'purchase' and
\* countIncentives the number tagged 'incentive'.
C26_CountsMatchRecords ==
    (resp.op = "getGroupTransactions.records" /\ resp.out.ok) =>
        LET report == resp.out.value
            tagged(kind) ==
                Cardinality({ i \in DOMAIN report.records :
                                report.records[i].type = kind })
        IN  /\ report.countRecords = report.countPurchases + report.countIncentives
            /\ report.countRecords = Len(report.records)
            /\ report.countPurchases = tagged("purchase")
            /\ report.countIncentives = tagged("incentive")

\* C27: a group with a cap never has more open Memberships than the cap.
C27_OpenMembershipsWithinCap ==
    \A r \in groups :
        r.max # NULL =>
            LET open == { m \in Rows(memberships) : m.gid = r.gid /\ m.left = NULL }
            IN  SumOver(open, [m \in open |-> CopiesIn(m, memberships)]) <= r.max

\* C28 (the counter's bound): FailedLoginAttempts of a user never exceeds
\* 5, whatever logins run concurrently.
C28_AttemptsAtMostFive ==
    \A u \in Users : attempts[u] <= LockoutAttempts

\* C29: validateSession(uname, token) succeeds only for a token that was an
\* active, unexpired session of user uname; the token it returns is an
\* active, unexpired session of that user; when it answers with a new token
\* the old session is inactive, an inactive session stays inactive, and a
\* validateSession or getDashboard carrying the token of a session that is
\* not active is refused.
SessionOf(token, S) == { x \in S : x.token = token }
C29_ValidatedSessionsAreLive ==
    [][ /\ \A x \in sessions : ~x.active =>
              \A y \in SessionOf(x.token, sessions') : ~y.active
        /\ (resp' # resp /\ resp'.op = "validateSession" /\ resp'.out.ok) =>
              /\ \E x \in sessions :
                    /\ x.token = resp'.token /\ x.uid = resp'.uname
                    /\ x.active /\ x.expires > NOW
              /\ \E y \in sessions' :
                    /\ y.token = resp'.out.value /\ y.uid = resp'.uname
                    /\ y.active /\ y.expires > NOW
              /\ resp'.out.value # resp'.token =>
                    \A x \in SessionOf(resp'.token, sessions') : ~x.active
              /\ resp'.out.value = resp'.token =>
                    \A x \in SessionOf(resp'.token, sessions) :
                        x.expires >= NOW + ThreeWeeks
        /\ (resp' # resp /\ resp'.op \in {"validateSession", "getDashboard"}
              /\ \E x \in sessions : x.token = resp'.token /\ ~x.active) =>
              ~resp'.out.ok
      ]_vars

\* A session was refreshed and its old token, still unexpired, has just been
\* refused.
C29_Witness ==
    /\ resp.op \in {"validateSession", "getDashboard"}
    /\ ~resp.out.ok
    /\ \E x \in sessions : x.token = resp.token /\ ~x.active /\ x.expires > NOW
    /\ \E y \in sessions : y.token # resp.token /\ y.active /\ y.expires > NOW

\* C30: the dashboard of a session whose user has joined a group lists
\* exactly the groups in which that user has an open Membership, each once,
\* and its memberships field is their number.
OpenGroupsOf(uname) ==
    { g \in Gids : \E m \in Rows(memberships) :
                      m.uid = uname /\ m.gid = g /\ m.left = NULL }
C30_DashboardListsOpenMemberships ==
    (/\ resp.op = "getDashboard"
     /\ resp.out.ok
     /\ \E m \in Rows(memberships) : m.uid = resp.out.value.user) =>
        LET open == OpenGroupsOf(resp.out.value.user)
        IN  /\ resp.out.value.groups = SetToBag({ getGroup(g).value : g \in open })
            /\ resp.out.value.memberships = Cardinality(open)

====
